---- MODULE Spec2Model ----
(***************************************************************************)
(* Model of the functional JSONPath transformation engine:                 *)
(*   - the tree automaton (parseJsonPath, transition, process), and        *)
(*   - the transformer (extractValues, setValueAtPath,                     *)
(*     transformSingleRule, transform).                                    *)
(*                                                                         *)
(* JavaScript values are tagged records: the field k is the value's kind,  *)
(* the field v its payload.  Strings (path texts, property names) are      *)
(* sequences of one-character strings, so that the character loops and     *)
(* the regular expressions of the source are modelled by what they do.     *)
(***************************************************************************)
EXTENDS Integers, Sequences, FiniteSets, TLC

VARIABLES
    \* --- TreeAutomaton: one createAutomaton(path).process(data) call ---
    jsonPath,       \* the path text handed to the constructor
    jsonData,       \* the document handed to process
    rule,           \* this.rule, the parsed segments
    currentStates,  \* process: let currentStates
    round,          \* number of iterations of the while loop executed
    results,        \* the list process returned
    ppc,            \* "new" | "loop" | "returned" | "idle"
    \* --- transform: one transform(sourceData, transformationRules) call ---
    sourceData,     \* the source document
    pathMappings,   \* transformationRules.pathMappings
    heap,           \* the accumulator objects allocated so far
    result,         \* reduce's accumulator: an index into heap
    ruleIdx,        \* number of rules reduce has handed to its callback
    tpc,            \* "call" | "reduce" | "returned" | "thrown" | "idle"
    \* --- history of the transform call (not program state) ---
    accBefore,      \* value of the accumulator when the last rule started
    prevRef,        \* its index in heap
    lastExtracted,  \* what extractValues returned for the last rule
    writes,         \* every setValueAtPath call so far: keys and value
    nExtracted,     \* rules whose source went through automaton.process
    nWritten,       \* rules that wrote into an accumulator
    \* --- validateRules: one validateRules(rules) call ---
    rules,          \* the value handed to validateRules
    valid,          \* what validateRules returned
    vpc,            \* "call" | "returned" | "thrown" | "idle"
    \* --- debugTransform: one debugTransform(sourceData, rules) call ---
    currentResult,  \* let currentResult
    steps,          \* const steps
    stepIdx,        \* number of rules the for loop has taken
    finalResult,    \* finalResult of the object debugTransform returned
    dpc,            \* "call" | "loop" | "returned" | "thrown" | "idle"
    \* --- composeTransformations(...transformFunctions)(data): one call ---
    transformFunctions, \* the functions handed to composeTransformations
    composeInput,   \* data
    composeResult,  \* reduceRight's accumulator, then the value returned
    composeDone,    \* number of callback calls reduceRight has made
    applied,        \* history: the positions of the functions called
    cpc             \* "call" | "reduce" | "returned" | "thrown" | "idle"

pvars == <<jsonPath, jsonData, rule, currentStates, round, results, ppc>>
tvars == <<sourceData, pathMappings, heap, result, ruleIdx, tpc>>
hvars == <<accBefore, prevRef, lastExtracted, writes, nExtracted, nWritten>>
vvars == <<rules, valid, vpc>>
dvars == <<currentResult, steps, stepIdx, finalResult, dpc>>
cvars ==
    <<transformFunctions, composeInput, composeResult, composeDone, applied,
      cpc>>
vars == <<pvars, tvars, hvars, vvars, dvars, cvars>>

----------------------------------------------------------------------------
(* Bounds of the model *)

MaxOuter == 2   \* longest outer array of a document handed to process
MaxInner == 2   \* longest inner array of a document handed to process
MaxSrc == 2     \* longest source array of a document handed to transform
MaxRules == 2   \* longest pathMappings list
MaxPathLen == 5 \* longest free path text handed to parseJsonPath, after "$"
MaxSegs == 3    \* longest segment list of a rendered grammar path
MaxVals == 3    \* longest array of a document handed to extractValues
MaxEntries == 2 \* longest pathMappings list handed to validateRules
MaxFns == 3     \* most functions handed to composeTransformations

----------------------------------------------------------------------------
(* JavaScript values *)

NoProps == [q \in {} |-> q]

Undefined == [k |-> "undefined", v |-> <<>>]
Null == [k |-> "null", v |-> <<>>]
NaN == [k |-> "NaN", v |-> <<>>]
\* the outcome of a call that raised: the name of the error
Raised(name) == [k |-> "raised", v |-> name]
Num(n) == [k |-> "number", v |-> n]
Str(s) == [k |-> "string", v |-> s]
\* an array: its elements v and the named (non-index) properties p it carries
Arr(s) == [k |-> "array", v |-> s, p |-> NoProps]
Obj(f) == [k |-> "object", v |-> f]
EmptyObj == Obj(NoProps)

\* an object literal with one / two keys
Obj1(k1, v1) == Obj([q \in {k1} |-> v1])
Obj2(k1, v1, k2, v2) == Obj([q \in {k1, k2} |-> IF q = k1 THEN v1 ELSE v2])

SeqsUpTo(S, n) == UNION {[1..m -> S] : m \in 0..n}

----------------------------------------------------------------------------
(* Strings as character sequences *)

DigitChars == <<"0", "1", "2", "3", "4", "5", "6", "7", "8", "9">>
IsDigit(c) == \E i \in 1..10 : DigitChars[i] = c
DigitVal(c) == (CHOOSE i \in 1..10 : DigitChars[i] = c) - 1

AllDigits(s) == \A i \in 1..Len(s) : IsDigit(s[i])

RECURSIVE DecimalValue(_)
DecimalValue(s) ==
    IF s = <<>> THEN 0
    ELSE 10 * DecimalValue(SubSeq(s, 1, Len(s) - 1)) + DigitVal(s[Len(s)])

\* number of leading digits of s
RECURSIVE LeadingDigits(_)
LeadingDigits(s) ==
    IF s = <<>> \/ ~IsDigit(s[1]) THEN 0 ELSE 1 + LeadingDigits(Tail(s))

Drop(s, n) == SubSeq(s, n + 1, Len(s))
Take(s, n) == SubSeq(s, 1, n)

LengthKey == <<"l", "e", "n", "g", "t", "h">>

----------------------------------------------------------------------------
(* JavaScript string-to-number conversions, on the characters a path of    *)
(* the model can hold (PathChars: lower-case letters, digits and the       *)
(* punctuation of paths; no sign, no white space)                          *)

Letters == {"a", "b", "c", "d", "e", "f", "g", "h", "i", "j", "k", "l", "m",
            "n", "o", "p", "q", "r", "s", "t", "u", "v", "w", "x", "y", "z"}
PathChars ==
    Letters \cup {DigitChars[i] : i \in 1..10}
            \cup {"$", ".", "[", "]", "*", "(", ")", "_"}

HexChars == <<"0", "1", "2", "3", "4", "5", "6", "7", "8", "9",
              "a", "b", "c", "d", "e", "f">>
IsHex(c) == \E i \in 1..16 : HexChars[i] = c
HexVal(c) == (CHOOSE i \in 1..16 : HexChars[i] = c) - 1

RECURSIVE HexValue(_)
HexValue(s) ==
    IF s = <<>> THEN 0
    ELSE 16 * HexValue(SubSeq(s, 1, Len(s) - 1)) + HexVal(s[Len(s)])

\* s is "0x" followed by at least one hexadecimal digit
IsHexLiteral(s) ==
    /\ Len(s) >= 3 /\ s[1] = "0" /\ s[2] = "x"
    /\ \A i \in 3..Len(s) : IsHex(s[i])

\* s is "0b" followed by binary digits, or "0o" followed by octal digits
IsBinaryLiteral(s) ==
    /\ Len(s) >= 3 /\ s[1] = "0" /\ s[2] = "b"
    /\ \A i \in 3..Len(s) : s[i] \in {"0", "1"}
IsOctalLiteral(s) ==
    /\ Len(s) >= 3 /\ s[1] = "0" /\ s[2] = "o"
    /\ \A i \in 3..Len(s) : s[i] \in {"0", "1", "2", "3", "4", "5", "6", "7"}

\* s is digits, digits "." digits, digits "." or "." digits
IsMantissa(s) ==
    LET n == LeadingDigits(s)
        rest == Drop(s, n)
    IN  \/ n >= 1 /\ rest = <<>>
        \/ /\ rest # <<>> /\ rest[1] = "."
           /\ AllDigits(Tail(rest))
           /\ n + Len(Tail(rest)) >= 1

\* a mantissa, or a mantissa, "e" and at least one digit
IsDecimalLiteral(s) ==
    \/ IsMantissa(s)
    \/ \E i \in 1..Len(s) :
          /\ s[i] = "e"
          /\ IsMantissa(Take(s, i - 1))
          /\ i < Len(s) /\ AllDigits(Drop(s, i))

\* isNaN(s) for a string s: Number(s) is NaN; Number("") is 0
isNaN(s) ==
    ~(\/ s = <<>>
      \/ IsDecimalLiteral(s)
      \/ IsHexLiteral(s) \/ IsBinaryLiteral(s) \/ IsOctalLiteral(s))

\* mutant: only the first digit is read
parseInt_OneDigit(s) ==
    IF LeadingDigits(s) = 0 THEN NaN ELSE Num(DigitVal(s[1]))

\* parseInt(s) without radix: the leading integer of s, NaN when there is none
parseInt(s) ==
    IF Len(s) >= 2 /\ s[1] = "0" /\ s[2] = "x"
    THEN LET h == Drop(s, 2)
             m == CHOOSE j \in 0..Len(h) :
                    /\ \A i \in 1..j : IsHex(h[i])
                    /\ (j < Len(h) => ~IsHex(h[j + 1]))
         IN  IF m = 0 THEN NaN ELSE Num(HexValue(Take(h, m)))
    ELSE IF LeadingDigits(s) = 0 THEN NaN
         ELSE Num(DecimalValue(Take(s, LeadingDigits(s))))

----------------------------------------------------------------------------
(* TreeAutomaton.parseJsonPath *)

\* jsonPath.replace(/^\$\.?/, ''): drop a leading "$" and a "." right after it
StripRoot(s) ==
    IF s # <<>> /\ s[1] = "$"
    THEN IF Len(s) >= 2 /\ s[2] = "." THEN Drop(s, 2) ELSE Drop(s, 1)
    ELSE s

PropertySegment(name) == [type |-> "property", value |-> Str(name)]
IndexSegment(n) == [type |-> "index", value |-> n]
WildcardSegment == [type |-> "wildcard"]

\* one iteration of the for loop, on the character char
ParseChar(st, char) ==
    IF char = "["
    THEN [segments |-> IF st.current # <<>>
                       THEN Append(st.segments, PropertySegment(st.current))
                       ELSE st.segments,
          current |-> <<>>,
          inBracket |-> TRUE]
    ELSE IF char = "]"
    THEN [segments |-> IF st.current = <<"*">>
                       THEN Append(st.segments, WildcardSegment)
                       ELSE IF ~isNaN(st.current)
                       THEN Append(st.segments, IndexSegment(parseInt(st.current)))
                       ELSE st.segments,
          current |-> <<>>,
          inBracket |-> FALSE]
    ELSE IF char = "." /\ ~st.inBracket
    THEN [segments |-> IF st.current # <<>>
                       THEN Append(st.segments, PropertySegment(st.current))
                       ELSE st.segments,
          current |-> <<>>,
          inBracket |-> st.inBracket]
    ELSE [st EXCEPT !.current = Append(st.current, char)]

RECURSIVE ParseLoop(_, _, _)
ParseLoop(cleanPath, i, st) ==
    IF i > Len(cleanPath) THEN st
    ELSE \* the state after the character is computed once, then the loop
         \* goes on from it
         CHOOSE r \in {ParseLoop(cleanPath, i + 1, next) :
                          next \in {ParseChar(st, cleanPath[i])}} : TRUE

parseJsonPath(path) ==
    LET st == ParseLoop(StripRoot(path), 1,
                        [segments |-> <<>>, current |-> <<>>, inBracket |-> FALSE])
    IN  IF st.current # <<>>
        THEN Append(st.segments, PropertySegment(st.current))
        ELSE st.segments

----------------------------------------------------------------------------
(* Property access on JavaScript values, as lodash and the engine use it *)

isObject(x) == x.k \in {"array", "object"}
isArray(x) == x.k = "array"

\* /^(?:0|[1-9]\d*)$/: the canonical text of an array index
IsIndexKey(key) ==
    /\ key # <<>> /\ AllDigits(key)
    /\ (key[1] = "0" => Len(key) = 1)

\* _.has(x, key) for a key that holds no "." and no bracket
has(x, key) ==
    IF x.k = "object" THEN key \in DOMAIN x.v
    ELSE IF x.k = "array"
    THEN \/ IsIndexKey(key) /\ DecimalValue(key) < Len(x.v)
         \/ key = LengthKey
         \/ key \in DOMAIN x.p
    ELSE FALSE

\* x[key] for an object or array x
GetProp(x, key) ==
    IF x.k = "object"
    THEN IF key \in DOMAIN x.v THEN x.v[key] ELSE Undefined
    ELSE IF x.k = "array"
    THEN IF IsIndexKey(key)
         THEN IF DecimalValue(key) < Len(x.v)
              THEN x.v[DecimalValue(key) + 1] ELSE Undefined
         ELSE IF key = LengthKey THEN Num(Len(x.v))
         ELSE IF key \in DOMAIN x.p THEN x.p[key] ELSE Undefined
    ELSE Undefined

----------------------------------------------------------------------------
(* TreeAutomaton: states and transitions *)

isAcceptingState(state, r) == state.ruleIndex >= Len(r)

\* mutant: the _.has test is left out
handlePropertyTransition_NoHas(state, property) ==
    IF isObject(state.currentValue)
    THEN << [ruleIndex |-> state.ruleIndex + 1,
             currentValue |-> GetProp(state.currentValue, property.v),
             currentPath |-> Append(state.currentPath, property)] >>
    ELSE <<>>

handlePropertyTransition(state, property) ==
    IF isObject(state.currentValue) /\ has(state.currentValue, property.v)
    THEN << [ruleIndex |-> state.ruleIndex + 1,
             currentValue |-> GetProp(state.currentValue, property.v),
             currentPath |-> Append(state.currentPath, property)] >>
    ELSE <<>>

\* mutant: the successor of element i consumes i segments more than one
handleWildcardTransition_IndexAdvance(state) ==
    IF isArray(state.currentValue)
    THEN [i \in 1..Len(state.currentValue.v) |->
             [ruleIndex |-> state.ruleIndex + i,
              currentValue |-> state.currentValue.v[i],
              currentPath |-> Append(state.currentPath, Num(i - 1))]]
    ELSE <<>>

\* mutant: the successors carry one-based positions
handleWildcardTransition_OneBased(state) ==
    IF isArray(state.currentValue)
    THEN [i \in 1..Len(state.currentValue.v) |->
             [ruleIndex |-> state.ruleIndex + 1,
              currentValue |-> state.currentValue.v[i],
              currentPath |-> Append(state.currentPath, Num(i))]]
    ELSE <<>>

handleWildcardTransition(state) ==
    IF isArray(state.currentValue)
    THEN [i \in 1..Len(state.currentValue.v) |->
             [ruleIndex |-> state.ruleIndex + 1,
              currentValue |-> state.currentValue.v[i],
              currentPath |-> Append(state.currentPath, Num(i - 1))]]
    ELSE <<>>

\* mutant: the bound test is index < length - 1
handleIndexTransition_StrictBound(state, index) ==
    IF /\ isArray(state.currentValue)
       /\ index.k = "number" /\ index.v < Len(state.currentValue.v) - 1
    THEN << [ruleIndex |-> state.ruleIndex + 1,
             currentValue |-> state.currentValue.v[index.v + 1],
             currentPath |-> Append(state.currentPath, index)] >>
    ELSE <<>>

\* index < length is false when index is NaN
handleIndexTransition(state, index) ==
    IF /\ isArray(state.currentValue)
       /\ index.k = "number" /\ index.v < Len(state.currentValue.v)
    THEN << [ruleIndex |-> state.ruleIndex + 1,
             currentValue |-> state.currentValue.v[index.v + 1],
             currentPath |-> Append(state.currentPath, index)] >>
    ELSE <<>>

\* mutant: every state is handed back as it is, none consumes a segment
transition_NoAdvance(state, r) == <<state>>

transition(state, r) ==
    IF isAcceptingState(state, r) THEN <<state>>
    ELSE LET currentSegment == r[state.ruleIndex + 1]
         IN  CASE currentSegment.type = "property" ->
                    handlePropertyTransition(state, currentSegment.value)
               [] currentSegment.type = "wildcard" ->
                    handleWildcardTransition(state)
               [] currentSegment.type = "index" ->
                    handleIndexTransition(state, currentSegment.value)

\* mutant: the successors of a state are put before those of the earlier
\* states (unshift instead of push)
RECURSIVE NextStates_Unshift(_, _)
NextStates_Unshift(states, r) ==
    IF states = <<>> THEN <<>>
    ELSE NextStates_Unshift(Tail(states), r) \o transition(states[1], r)

\* the for loop of process: the successors of all states, in order
RECURSIVE NextStates(_, _)
NextStates(states, r) ==
    IF states = <<>> THEN <<>>
    ELSE transition(states[1], r) \o NextStates(Tail(states), r)

\* mutant: the two filters are exchanged
SelectStates_Exchanged(states, r, accepting) ==
    SelectSeq(states, LAMBDA s : isAcceptingState(s, r) # accepting)

SelectStates(states, r, accepting) ==
    SelectSeq(states, LAMBDA s : isAcceptingState(s, r) = accepting)

\* mutant: a match carries the path without its last entry
ToMatches_ParentPath(states) ==
    [i \in 1..Len(states) |->
        [value |-> states[i].currentValue,
         path |-> Take(states[i].currentPath,
                       Len(states[i].currentPath) - 1)]]

ToMatches(states) ==
    [i \in 1..Len(states) |->
        [value |-> states[i].currentValue, path |-> states[i].currentPath]]

InitialStates(data) ==
    << [ruleIndex |-> 0, currentValue |-> data, currentPath |-> <<>>] >>

\* the while loop of process, from the state list cur
RECURSIVE ProcessLoop(_, _)
ProcessLoop(cur, r) ==
    IF Len(cur) = 0 THEN <<>>
    ELSE LET nextStates == NextStates(cur, r)
             acceptingStates == SelectStates(nextStates, r, TRUE)
         IN  IF Len(acceptingStates) > 0 THEN ToMatches(acceptingStates)
             ELSE ProcessLoop(SelectStates(nextStates, r, FALSE), r)

\* createAutomaton(path).process(data)
process(path, data) == ProcessLoop(InitialStates(data), parseJsonPath(path))

----------------------------------------------------------------------------
(* transformer.js: parsePathWithOperation *)

\* \w of a regular expression, on the characters of PathChars
IsWordChar(c) == c \in Letters \/ IsDigit(c) \/ c = "_"

\* number of word characters s ends with
RECURSIVE TrailingWordChars(_)
TrailingWordChars(s) ==
    IF s = <<>> \/ ~IsWordChar(s[Len(s)]) THEN 0
    ELSE 1 + TrailingWordChars(Take(s, Len(s) - 1))

\* jsonPath.match(/\.(\w+)\(\)$/): the text ends with ".", word
\* characters and "()"
HasOperationSuffix(s) ==
    /\ Len(s) >= 4
    /\ s[Len(s) - 1] = "(" /\ s[Len(s)] = ")"
    /\ LET body == Take(s, Len(s) - 2)
           n == TrailingWordChars(body)
       IN  n >= 1 /\ Len(body) > n /\ body[Len(body) - n] = "."

\* mutant: the suffix is recognised but not removed from the path
parsePathWithOperation_KeepSuffix(s) ==
    IF HasOperationSuffix(s)
    THEN LET body == Take(s, Len(s) - 2)
             n == TrailingWordChars(body)
         IN  [path |-> s, operation |-> Str(Drop(body, Len(body) - n))]
    ELSE [path |-> s, operation |-> Null]

parsePathWithOperation(s) ==
    IF HasOperationSuffix(s)
    THEN LET body == Take(s, Len(s) - 2)
             n == TrailingWordChars(body)
         IN  [path |-> Take(body, Len(body) - n - 1),
              operation |-> Str(Drop(body, Len(body) - n))]
    ELSE [path |-> s, operation |-> Null]

----------------------------------------------------------------------------
(* transformer.js: aggregateOps, on lists of numbers *)

OpNames ==
    { <<"m", "a", "x">>, <<"m", "i", "n">>, <<"s", "u", "m">>,
      <<"a", "v", "g">>, <<"c", "o", "u", "n", "t">>,
      <<"f", "i", "r", "s", "t">>, <<"l", "a", "s", "t">>,
      <<"u", "n", "i", "q", "u", "e">>, <<"s", "o", "r", "t">>,
      <<"r", "e", "v", "e", "r", "s", "e">> }

\* the lower-case names aggregateOps inherits from Object.prototype:
\* aggregateOps['constructor'] is the function Object, aggregateOps['__proto__']
\* is Object.prototype itself, an object that cannot be called
InheritedNames ==
    { <<"c", "o", "n", "s", "t", "r", "u", "c", "t", "o", "r">>,
      <<"_", "_", "p", "r", "o", "t", "o", "_", "_">> }

RECURSIVE SumOf(_)
SumOf(vals) == IF vals = <<>> THEN 0 ELSE vals[1].v + SumOf(Tail(vals))

\* mutant: Math.max(...values), which is -Infinity on the empty list
MaxOf_MathMax(vals) ==
    IF vals = <<>> THEN [k |-> "number", v |-> "-Infinity"]
    ELSE vals[CHOOSE i \in 1..Len(vals) :
                \A j \in 1..Len(vals) : vals[j].v <= vals[i].v]

\* _.max / _.min: undefined on the empty list
MaxOf(vals) ==
    IF vals = <<>> THEN Undefined
    ELSE vals[CHOOSE i \in 1..Len(vals) :
                \A j \in 1..Len(vals) : vals[j].v <= vals[i].v]
MinOf(vals) ==
    IF vals = <<>> THEN Undefined
    ELSE vals[CHOOSE i \in 1..Len(vals) :
                \A j \in 1..Len(vals) : vals[i].v <= vals[j].v]

\* _.mean: NaN on the empty list; a quotient that is no integer is kept as
\* the pair <<sum, length>>
MeanOf(vals) ==
    IF vals = <<>> THEN NaN
    ELSE IF SumOf(vals) % Len(vals) = 0 THEN Num(SumOf(vals) \div Len(vals))
    ELSE [k |-> "fraction", v |-> <<SumOf(vals), Len(vals)>>]

\* _.uniq: the first occurrence of every value, in order
RECURSIVE UniqOf(_)
UniqOf(vals) ==
    IF vals = <<>> THEN <<>>
    ELSE LET init == UniqOf(Take(vals, Len(vals) - 1))
             x == vals[Len(vals)]
         IN  IF \E i \in 1..Len(init) : init[i] = x THEN init
             ELSE Append(init, x)

\* _.sortBy: ascending, stable
RECURSIVE SortOf(_)
SortOf(vals) ==
    IF vals = <<>> THEN <<>>
    ELSE LET init == SortOf(Take(vals, Len(vals) - 1))
             x == vals[Len(vals)]
             n == Cardinality({i \in 1..Len(init) : init[i].v <= x.v})
         IN  Take(init, n) \o <<x>> \o Drop(init, n)

ReverseOf(vals) == [i \in 1..Len(vals) |-> vals[Len(vals) + 1 - i]]

\* aggregateOps[operation](values)
aggregateOps(operation, vals) ==
    CASE operation = <<"m", "a", "x">> -> MaxOf(vals)
      [] operation = <<"m", "i", "n">> -> MinOf(vals)
      [] operation = <<"s", "u", "m">> -> Num(SumOf(vals))
      [] operation = <<"a", "v", "g">> -> MeanOf(vals)
      [] operation = <<"c", "o", "u", "n", "t">> -> Num(Len(vals))
      [] operation = <<"f", "i", "r", "s", "t">> ->
            IF vals = <<>> THEN Undefined ELSE vals[1]
      [] operation = <<"l", "a", "s", "t">> ->
            IF vals = <<>> THEN Undefined ELSE vals[Len(vals)]
      [] operation = <<"u", "n", "i", "q", "u", "e">> -> Arr(UniqOf(vals))
      [] operation = <<"s", "o", "r", "t">> -> Arr(SortOf(vals))
      [] operation = <<"r", "e", "v", "e", "r", "s", "e">> -> Arr(ReverseOf(vals))
      \* Object(values) is values itself
      [] operation = <<"c", "o", "n", "s", "t", "r", "u", "c", "t", "o", "r">> ->
            Arr(vals)
      [] operation = <<"_", "_", "p", "r", "o", "t", "o", "_", "_">> ->
            Raised("TypeError")

----------------------------------------------------------------------------
(* transformer.js: extractValues *)

\* the last three statements of extractValues: the values of the matches,
\* aggregated if the path names an operation of aggregateOps, else the one
\* value or the list of them
ValuesOf(matches) == [i \in 1..Len(matches) |-> matches[i].value]

\* mutant: a path without match raises
ExtractedFrom_RaiseOnNoMatch(operation, values) ==
    IF values = <<>> THEN Raised("Error")
    ELSE IF operation.k = "string" /\ operation.v \in OpNames \cup InheritedNames
    THEN aggregateOps(operation.v, values)
    ELSE IF Len(values) = 1 THEN values[1] ELSE Arr(values)

\* aggregateOps[operation] is truthy for the ten operations and for the
\* names aggregateOps inherits (of these the model has the two that are
\* written in lower case)
ExtractedFrom(operation, values) ==
    IF operation.k = "string" /\ operation.v \in OpNames \cup InheritedNames
    THEN aggregateOps(operation.v, values)
    ELSE IF Len(values) = 1 THEN values[1] ELSE Arr(values)

ExtractParsed(data, parsed) ==
    ExtractedFrom(parsed.operation, ValuesOf(process(parsed.path, data)))

extractValues(data, path) == ExtractParsed(data, parsePathWithOperation(path))

----------------------------------------------------------------------------
(* transformer.js: setValueAtPath *)

\* length of the bracket group s starts with, 0 if it starts with none:
\* "[", at least one character that is no "]" (a digit, if digitsOnly),
\* and "]"
GroupLength(s, digitsOnly) ==
    IF s = <<>> \/ s[1] # "[" THEN 0
    ELSE LET inner == CHOOSE n \in 0..(Len(s) - 1) :
                        /\ \A i \in 2..(n + 1) :
                              IF digitsOnly THEN IsDigit(s[i]) ELSE s[i] # "]"
                        /\ (n + 2 <= Len(s) =>
                              IF digitsOnly THEN ~IsDigit(s[n + 2])
                              ELSE s[n + 2] = "]")
         IN  IF inner >= 1 /\ inner + 2 <= Len(s) /\ s[inner + 2] = "]"
             THEN inner + 2 ELSE 0

\* .replace(/\[(\d+)\]/g, '.$1') and .replace(/\[([^\]]+)\]/g, '.$1')
RECURSIVE ReplaceGroups(_, _)
ReplaceGroups(s, digitsOnly) ==
    IF s = <<>> THEN <<>>
    ELSE LET n == GroupLength(s, digitsOnly)
         IN  IF n > 0
             THEN <<".">> \o SubSeq(s, 2, n - 1)
                  \o ReplaceGroups(Drop(s, n), digitsOnly)
             ELSE <<s[1]>> \o ReplaceGroups(Tail(s), digitsOnly)

\* the lodash path text of a target path
lodashPath(targetPath) ==
    ReplaceGroups(ReplaceGroups(StripRoot(targetPath), TRUE), FALSE)

\* split on ".": what lodash's stringToPath does to a text without brackets
RECURSIVE SplitOnDots(_, _)
SplitOnDots(s, current) ==
    IF s = <<>> THEN <<current>>
    ELSE IF s[1] = "." THEN <<current>> \o SplitOnDots(Tail(s), <<>>)
    ELSE SplitOnDots(Tail(s), Append(current, s[1]))

\* lodash castPath, for a text without brackets: a text without "." is one
\* key (the empty text too); any other text is split
castPath(s) ==
    IF \A i \in 1..Len(s) : s[i] # "." THEN <<s>> ELSE SplitOnDots(s, <<>>)

\* lodash assignValue: container[key] = value.  An index key of an array
\* sets the element, after filling the positions in between; any other key
\* of an array becomes a named property of it
Assign(container, key, value) ==
    IF container.k = "object"
    THEN Obj([q \in DOMAIN container.v \cup {key} |->
                IF q = key THEN value ELSE container.v[q]])
    ELSE IF IsIndexKey(key)
    THEN LET n == DecimalValue(key)
             len == IF n < Len(container.v) THEN Len(container.v) ELSE n + 1
         IN  [container EXCEPT !.v =
                [i \in 1..len |->
                    IF i = n + 1 THEN value
                    ELSE IF i <= Len(container.v) THEN container.v[i]
                    ELSE Undefined]]
    ELSE [container EXCEPT !.p =
            [q \in DOMAIN container.p \cup {key} |->
                IF q = key THEN value ELSE container.p[q]]]

\* lodash baseSet, below the container nested: every key but the last keeps
\* the object or array found there, or puts a new array (the next key is an
\* index) or a new object
RECURSIVE SetIn(_, _, _)
SetIn(nested, keys, value) ==
    IF Len(keys) = 1 THEN Assign(nested, keys[1], value)
    ELSE LET objValue == GetProp(nested, keys[1])
             newValue == IF isObject(objValue) THEN objValue
                         ELSE IF IsIndexKey(keys[2]) THEN Arr(<<>>)
                         ELSE EmptyObj
         IN  Assign(nested, keys[1], SetIn(newValue, Tail(keys), value))

\* _.set(object, path, value), the object changed in place
set(object, path, value) ==
    IF ~isObject(object) THEN object ELSE SetIn(object, castPath(path), value)

\* _.cloneDeep: objects and arrays are copied recursively; of an array only
\* the elements are copied, its named properties are not.  Values are
\* compared by content: that two places of a document may hold the same
\* object is not modelled
RECURSIVE cloneDeep(_)
cloneDeep(x) ==
    IF x.k = "object" THEN Obj([q \in DOMAIN x.v |-> cloneDeep(x.v[q])])
    ELSE IF x.k = "array" THEN Arr([i \in 1..Len(x.v) |-> cloneDeep(x.v[i])])
    ELSE x

\* mutant: _.set on the accumulator itself, without _.cloneDeep
setValueAtPath_NoClone(h, target, targetPath, value) ==
    [heap |-> [h EXCEPT
                 ![target] = set(h[target], lodashPath(targetPath), value)],
     ref |-> target]

\* setValueAtPath(target, targetPath, value), target an index into the
\* heap h of accumulator objects: the clone is a new object of the heap, and
\* _.set changes the clone
setValueAtPath(h, target, targetPath, value) ==
    LET clone == Len(h) + 1
        cloned == Append(h, cloneDeep(h[target]))
    IN  [heap |-> [cloned EXCEPT
                     ![clone] = set(cloned[clone], lodashPath(targetPath), value)],
         ref |-> clone]

----------------------------------------------------------------------------
(* transformer.js: transformSingleRule *)

WildcardText == <<"[", "*", "]">>

\* target.indexOf('[*]'), counted from 0; -1 if there is none
indexOfWildcard(s) ==
    IF \E i \in 1..(Len(s) - 2) : SubSeq(s, i, i + 2) = WildcardText
    THEN (CHOOSE i \in 1..(Len(s) - 2) :
            /\ SubSeq(s, i, i + 2) = WildcardText
            /\ \A j \in 1..(i - 1) : SubSeq(s, j, j + 2) # WildcardText) - 1
    ELSE 0 - 1

includesWildcard(s) == indexOfWildcard(s) >= 0

\* the decimal text of a natural number
RECURSIVE NatToChars(_)
NatToChars(n) ==
    IF n < 10 THEN <<DigitChars[n + 1]>>
    ELSE Append(NatToChars(n \div 10), DigitChars[(n % 10) + 1])

\* target.replace('[*]', `[${index}]`): the first "[*]" only
replaceWildcard(s, index) ==
    IF ~includesWildcard(s) THEN s
    ELSE Take(s, indexOfWildcard(s)) \o <<"[">> \o NatToChars(index) \o <<"]">>
         \o Drop(s, indexOfWildcard(s) + 3)

\* the result r of one setValueAtPath call on the accumulator st.ref, the
\* call recorded with the accumulator it was given and the keys it wrote
RecordCall(st, r, targetPath, value) ==
    [heap |-> r.heap,
     ref |-> r.ref,
     calls |-> Append(st.calls,
                 [inRef |-> st.ref,
                  inValue |-> st.heap[st.ref],
                  outRef |-> r.ref,
                  keys |-> castPath(lodashPath(targetPath)),
                  value |-> value])]

\* one setValueAtPath call on the accumulator st.ref
CallSetValueAtPath(st, targetPath, value) ==
    RecordCall(st, setValueAtPath(st.heap, st.ref, targetPath, value),
               targetPath, value)

\* _.reduce(extractedValue, (acc, item, index) => setValueAtPath(...), acc),
\* from the element of position index on
RECURSIVE ReduceItems(_, _, _, _)
ReduceItems(st, target, items, index) ==
    IF index >= Len(items) THEN st
    ELSE ReduceItems(
            CallSetValueAtPath(st, replaceWildcard(target, index), items[index + 1]),
            target, items, index + 1)

\* what a transformSingleRule call leaves: the heap, the accumulator it
\* returns, the setValueAtPath calls it made, and whether it raised
RuleReturned(s, extractedValue) ==
    [thrown |-> FALSE, heap |-> s.heap, ref |-> s.ref, calls |-> s.calls,
     extracted |-> TRUE, extractedValue |-> extractedValue]

RuleThrown(st, extracted, extractedValue) ==
    [thrown |-> TRUE, heap |-> st.heap, ref |-> st.ref, calls |-> <<>>,
     extracted |-> extracted, extractedValue |-> extractedValue]

\* mutant: the empty list is not treated apart, the reduce over no item
\* returns the accumulator as it is
WriteExtracted_NoEmptyCase(st, target, extractedValue) ==
    IF target.k # "string" THEN RuleThrown(st, TRUE, extractedValue)
    ELSE IF isArray(extractedValue) /\ includesWildcard(target.v)
    THEN RuleReturned(ReduceItems(st, target.v, extractedValue.v, 0),
                      extractedValue)
    ELSE RuleReturned(CallSetValueAtPath(st, target.v, extractedValue),
                      extractedValue)

\* the statements of transformSingleRule after the extraction
WriteExtracted(st, target, extractedValue) ==
    IF target.k # "string" THEN RuleThrown(st, TRUE, extractedValue)
    ELSE IF isArray(extractedValue) /\ includesWildcard(target.v)
    THEN IF Len(extractedValue.v) = 0
         THEN RuleReturned(CallSetValueAtPath(st,
                          Take(target.v, indexOfWildcard(target.v)), Arr(<<>>)),
                       extractedValue)
         ELSE RuleReturned(ReduceItems(st, target.v, extractedValue.v, 0),
                       extractedValue)
    ELSE RuleReturned(CallSetValueAtPath(st, target.v, extractedValue),
                  extractedValue)

\* transformSingleRule(sourceData, rule, accumulator), accumulator an index
\* into the heap h.  A source or target that is no string raises a
\* TypeError: the source in parsePathWithOperation, before anything is
\* extracted, the target after the extraction, before anything is written
WriteUnlessRaised(st, target, extractedValue) ==
    IF extractedValue.k = "raised" THEN RuleThrown(st, FALSE, Undefined)
    ELSE WriteExtracted(st, target, extractedValue)

TransformFrom(st, data, rl) ==
    IF rl.source.k # "string" THEN RuleThrown(st, FALSE, Undefined)
    ELSE WriteUnlessRaised(st, rl.target, extractValues(data, rl.source.v))

transformSingleRule(h, data, rl, accumulator) ==
    TransformFrom([heap |-> h, ref |-> accumulator, calls |-> <<>>], data, rl)

----------------------------------------------------------------------------
(* Inputs of the process specification *)

ka == <<"a">>
kb == <<"b">>
kc == <<"c">>

\* inner arrays: numbers and {c: number} objects
ProcLeaves == {Num(3), Obj1(kc, Num(4))}
ProcInner == {Arr(s) : s \in SeqsUpTo(ProcLeaves, MaxInner)} \cup {Num(2)}
\* outer arrays: numbers and {b: inner} objects
ProcElems == {Num(1)} \cup {Obj1(kb, i) : i \in ProcInner}
ProcDocs ==
    {Obj1(ka, Arr(s)) : s \in SeqsUpTo(ProcElems, MaxOuter)}
    \cup {Obj1(ka, Num(5)), Obj1(ka, Obj1(kb, Num(6))), Obj1(kb, Num(7))}

\* the text of a path, from its segments: "$", then ".name", "[n]" or "[*]"
RenderSegment(seg) ==
    CASE seg.type = "property" -> <<".">> \o seg.value.v
      [] seg.type = "index" -> <<"[">> \o NatToChars(seg.value.v) \o <<"]">>
      [] seg.type = "wildcard" -> <<"[", "*", "]">>

RECURSIVE RenderSegments(_)
RenderSegments(segs) ==
    IF segs = <<>> THEN <<>>
    ELSE RenderSegment(segs[1]) \o RenderSegments(Tail(segs))

RenderPath(segs) == <<"$">> \o RenderSegments(segs)

P(name) == PropertySegment(name)
I(n) == IndexSegment(Num(n))
W == WildcardSegment

ProcSegments ==
    { <<>>,
      <<P(ka)>>,
      <<P(kb)>>,
      <<P(ka), P(kb)>>,
      <<P(ka), I(0)>>,
      <<P(ka), I(2)>>,
      <<P(ka), I(1), P(kb)>>,
      <<P(ka), I(0), P(kb), I(1)>>,
      <<P(ka), W>>,
      <<P(ka), W, P(kb)>>,
      <<P(ka), W, P(kb), I(0)>>,
      <<P(ka), I(1), P(kb), W, P(kc)>>,
      <<P(ka), W, P(kb), W>>,
      <<P(ka), W, P(kb), W, P(kc)>> }

ProcPaths == {RenderPath(segs) : segs \in ProcSegments}

----------------------------------------------------------------------------
(* The process specification: one automaton, one process call *)

DebugIdle ==
    /\ currentResult = Undefined
    /\ steps = <<>>
    /\ stepIdx = 0
    /\ finalResult = Undefined
    /\ dpc = "idle"

ComposeIdle ==
    /\ transformFunctions = <<>>
    /\ composeInput = Undefined
    /\ composeResult = Undefined
    /\ composeDone = 0
    /\ applied = <<>>
    /\ cpc = "idle"

ValidateIdle ==
    /\ rules = Undefined
    /\ valid = Undefined
    /\ vpc = "idle"

TransformIdle ==
    /\ sourceData = Undefined
    /\ pathMappings = Undefined
    /\ heap = <<>>
    /\ result = 0
    /\ ruleIdx = 0
    /\ tpc = "idle"
    /\ accBefore = Undefined
    /\ prevRef = 0
    /\ lastExtracted = Undefined
    /\ writes = <<>>
    /\ nExtracted = 0
    /\ nWritten = 0

InitProcess ==
    /\ jsonPath \in ProcPaths
    /\ jsonData \in ProcDocs
    /\ rule = <<>>
    /\ currentStates = <<>>
    /\ round = 0
    /\ results = <<>>
    /\ ppc = "new"
    /\ TransformIdle
    /\ ValidateIdle
    /\ DebugIdle
    /\ ComposeIdle

\* new TreeAutomaton(jsonPath)
Construct ==
    /\ ppc = "new"
    /\ rule' = parseJsonPath(jsonPath)
    /\ ppc' = "ready"
    /\ UNCHANGED <<jsonPath, jsonData, currentStates, round, results>>
    /\ UNCHANGED <<tvars, hvars, vvars>>
    /\ UNCHANGED <<dvars, cvars>>

\* process(jsonData), up to the while loop
ProcessStart ==
    /\ ppc = "ready"
    /\ currentStates' = InitialStates(jsonData)
    /\ round' = 0
    /\ ppc' = "loop"
    /\ UNCHANGED <<jsonPath, jsonData, rule, results>>
    /\ UNCHANGED <<tvars, hvars, vvars>>
    /\ UNCHANGED <<dvars, cvars>>

\* one iteration of the while loop
ProcessRound ==
    /\ ppc = "loop"
    /\ Len(currentStates) > 0
    /\ LET nextStates == NextStates(currentStates, rule)
           acceptingStates == SelectStates(nextStates, rule, TRUE)
           continuingStates == SelectStates(nextStates, rule, FALSE)
       IN  IF Len(acceptingStates) > 0
           THEN /\ results' = ToMatches(acceptingStates)
                /\ ppc' = "returned"
                /\ currentStates' = currentStates
           ELSE /\ currentStates' = continuingStates
                /\ UNCHANGED <<results, ppc>>
    /\ round' = round + 1
    /\ UNCHANGED <<jsonPath, jsonData, rule>>
    /\ UNCHANGED <<tvars, hvars, vvars>>
    /\ UNCHANGED <<dvars, cvars>>

\* the while condition fails: return []
ProcessExit ==
    /\ ppc = "loop"
    /\ Len(currentStates) = 0
    /\ results' = <<>>
    /\ ppc' = "returned"
    /\ UNCHANGED <<jsonPath, jsonData, rule, currentStates, round>>
    /\ UNCHANGED <<tvars, hvars, vvars>>
    /\ UNCHANGED <<dvars, cvars>>

NextProcess == Construct \/ ProcessStart \/ ProcessRound \/ ProcessExit

SpecProcess == InitProcess /\ [][NextProcess]_vars

----------------------------------------------------------------------------
(* What a path means on a JSON document, stated without the automaton:     *)
(* a property names a key of an object, an index a position of an array.  *)

\* the segments a path text of ProcPaths was written from
Intended(path) == CHOOSE segs \in ProcSegments : RenderPath(segs) = path

IsChild(v, entry) ==
    \/ entry.k = "string" /\ v.k = "object" /\ entry.v \in DOMAIN v.v
    \/ entry.k = "number" /\ v.k = "array" /\ entry.v < Len(v.v)

Child(v, entry) ==
    IF entry.k = "string" THEN v.v[entry.v] ELSE v.v[entry.v + 1]

\* the chain exists in v
RECURSIVE ChainExists(_, _)
ChainExists(v, chain) ==
    \/ chain = <<>>
    \/ IsChild(v, chain[1]) /\ ChainExists(Child(v, chain[1]), Tail(chain))

\* the value an existing chain leads to
RECURSIVE ChainValue(_, _)
ChainValue(v, chain) ==
    IF chain = <<>> THEN v ELSE ChainValue(Child(v, chain[1]), Tail(chain))

HasWildcard(segs) == \E i \in 1..Len(segs) : segs[i].type = "wildcard"
WildcardPositions(segs) == {i \in 1..Len(segs) : segs[i].type = "wildcard"}

\* the chain of a wildcard-free segment list
ChainOf(segs) == [i \in 1..Len(segs) |-> segs[i].value]

\* the matches of segs below v, depth first: at a wildcard, the matches of
\* element 0, then those of element 1, ...
RECURSIVE Matches(_, _, _)
RECURSIVE MatchesOfElements(_, _, _, _)
Matches(v, segs, at) ==
    IF segs = <<>> THEN << [value |-> v, path |-> at] >>
    ELSE IF segs[1].type = "wildcard"
    THEN IF v.k = "array" THEN MatchesOfElements(v, Tail(segs), at, 0) ELSE <<>>
    ELSE IF IsChild(v, segs[1].value)
    THEN Matches(Child(v, segs[1].value), Tail(segs), Append(at, segs[1].value))
    ELSE <<>>
MatchesOfElements(arr, rest, at, i) ==
    IF i >= Len(arr.v) THEN <<>>
    ELSE Matches(arr.v[i + 1], rest, Append(at, Num(i)))
         \o MatchesOfElements(arr, rest, at, i + 1)

Returned == ppc = "returned"

----------------------------------------------------------------------------
(* C1 *)

\* C1: for a path of property and index segments only whose chain exists in
\* the document, process returns exactly one match: its path is the chain
\* and its value is the value stored there.
C1_ExactChainOneMatch ==
    LET segs == Intended(jsonPath) IN
    (Returned /\ ~HasWildcard(segs) /\ ChainExists(jsonData, ChainOf(segs)))
        => results = << [value |-> ChainValue(jsonData, ChainOf(segs)),
                         path |-> ChainOf(segs)] >>

\* a chain of four segments, properties and indices, was matched
C1_Witness ==
    LET segs == Intended(jsonPath) IN
    /\ Returned
    /\ ~HasWildcard(segs) /\ Len(segs) = 4
    /\ ChainExists(jsonData, ChainOf(segs))
    /\ Len(results) = 1

----------------------------------------------------------------------------
(* C2 *)

\* the one wildcard of segs is applied to an array: the chain before it
\* exists and leads to an array
OneWildcardOnArray(segs, doc) ==
    /\ Cardinality(WildcardPositions(segs)) = 1
    /\ LET w == CHOOSE i \in WildcardPositions(segs) : TRUE
           pre == ChainOf(Take(segs, w - 1))
       IN  /\ ChainExists(doc, pre)
           /\ ChainValue(doc, pre).k = "array"

WildcardArray(segs, doc) ==
    LET w == CHOOSE i \in WildcardPositions(segs) : TRUE
    IN  ChainValue(doc, ChainOf(Take(segs, w - 1)))

\* the paths of the matches are those of segs with i-1 at the wildcard
PathsDifferOnlyAtWildcard(segs, ms) ==
    \A i \in 1..Len(ms) :
        /\ Len(ms[i].path) = Len(segs)
        /\ \A j \in 1..Len(segs) :
              ms[i].path[j] = IF segs[j].type = "wildcard" THEN Num(i - 1)
                              ELSE segs[j].value

\* C2 as stated: one wildcard on an array of length k gives exactly k
\* matches, with 0, 1, ..., k-1 at the wildcard position.
C2_Original ==
    LET segs == Intended(jsonPath) IN
    (Returned /\ OneWildcardOnArray(segs, jsonData))
        => /\ Len(results) = Len(WildcardArray(segs, jsonData).v)
           /\ PathsDifferOnlyAtWildcard(segs, results)

\* the matches below the elements of arr on which the chain suf exists
RECURSIVE ElementMatches(_, _, _, _)
ElementMatches(arr, pre, suf, i) ==
    IF i >= Len(arr.v) THEN <<>>
    ELSE (IF ChainExists(arr.v[i + 1], suf)
          THEN << [value |-> ChainValue(arr.v[i + 1], suf),
                   path |-> Append(pre, Num(i)) \o suf] >>
          ELSE <<>>)
         \o ElementMatches(arr, pre, suf, i + 1)

\* C2 (amended): one wildcard on an array of length k gives one match for
\* each element on which the rest of the path exists, in element order,
\* with the element's index at the wildcard position; exactly k matches
\* when the rest of the path exists on every element.
C2_OneMatchPerMatchingElement ==
    LET segs == Intended(jsonPath) IN
    (Returned /\ OneWildcardOnArray(segs, jsonData))
        => LET w == CHOOSE i \in WildcardPositions(segs) : TRUE
               pre == ChainOf(Take(segs, w - 1))
               suf == ChainOf(Drop(segs, w))
               arr == WildcardArray(segs, jsonData)
           IN  /\ results = ElementMatches(arr, pre, suf, 0)
               /\ (\A i \in 1..Len(arr.v) : ChainExists(arr.v[i], suf))
                     => /\ Len(results) = Len(arr.v)
                        /\ PathsDifferOnlyAtWildcard(segs, results)

\* a wildcard over a two-element array, the rest of the path existing on
\* the second element only
C2_Witness ==
    LET segs == Intended(jsonPath) IN
    /\ Returned
    /\ OneWildcardOnArray(segs, jsonData)
    /\ Len(WildcardArray(segs, jsonData).v) = 2
    /\ segs[2].type = "wildcard" /\ Len(segs) = 3
    /\ Len(results) = 1
    /\ results[1].path[2] = Num(1)

----------------------------------------------------------------------------
(* C3 *)

FirstWildcard(segs) ==
    CHOOSE i \in WildcardPositions(segs) :
        \A j \in WildcardPositions(segs) : i <= j
SecondWildcard(segs) ==
    CHOOSE i \in WildcardPositions(segs) :
        \A j \in WildcardPositions(segs) : j <= i

OuterPrefix(segs) == ChainOf(Take(segs, FirstWildcard(segs) - 1))
Middle(segs) ==
    ChainOf(SubSeq(segs, FirstWildcard(segs) + 1, SecondWildcard(segs) - 1))
Rest(segs) == ChainOf(Drop(segs, SecondWildcard(segs)))

\* segs has two wildcards and the outer one is applied to an array
TwoWildcardsOnArray(segs, doc) ==
    /\ Cardinality(WildcardPositions(segs)) = 2
    /\ ChainExists(doc, OuterPrefix(segs))
    /\ ChainValue(doc, OuterPrefix(segs)).k = "array"

OuterArray(segs, doc) == ChainValue(doc, OuterPrefix(segs))

\* the outer element e holds an inner array
HoldsInnerArray(e, mid) == ChainExists(e, mid) /\ ChainValue(e, mid).k = "array"

\* the pairs <<i, j>>, outer index first, of the inner elements of the
\* outer elements i, i+1, ...
RECURSIVE InnerIndexes(_, _)
InnerIndexes(i, n) ==
    IF n = 0 THEN <<>> ELSE Append(InnerIndexes(i, n - 1), <<i, n - 1>>)
RECURSIVE OuterThenInner(_, _, _)
OuterThenInner(outer, mid, i) ==
    IF i >= Len(outer.v) THEN <<>>
    ELSE InnerIndexes(i, Len(ChainValue(outer.v[i + 1], mid).v))
         \o OuterThenInner(outer, mid, i + 1)

\* C3 as stated: two wildcards over an outer array whose elements hold
\* inner arrays give one match per inner element (k1*k2 for inner arrays of
\* one length k2), ordered outer-then-inner.
C3_Original ==
    LET segs == Intended(jsonPath) IN
    (/\ Returned
     /\ TwoWildcardsOnArray(segs, jsonData)
     /\ \A i \in 1..Len(OuterArray(segs, jsonData).v) :
           HoldsInnerArray(OuterArray(segs, jsonData).v[i], Middle(segs)))
        => LET pairs == OuterThenInner(OuterArray(segs, jsonData), Middle(segs), 0)
           IN  /\ Len(results) = Len(pairs)
               /\ \A m \in 1..Len(results) :
                     /\ results[m].path[FirstWildcard(segs)] = Num(pairs[m][1])
                     /\ results[m].path[SecondWildcard(segs)] = Num(pairs[m][2])

\* the matches below the outer elements i, i+1, ...: for each, those of the
\* inner array it holds, none if it holds no inner array
RECURSIVE OuterMatches(_, _, _, _, _)
OuterMatches(outer, pre, mid, suf, i) ==
    IF i >= Len(outer.v) THEN <<>>
    ELSE (IF HoldsInnerArray(outer.v[i + 1], mid)
          THEN ElementMatches(ChainValue(outer.v[i + 1], mid),
                              Append(pre, Num(i)) \o mid, suf, 0)
          ELSE <<>>)
         \o OuterMatches(outer, pre, mid, suf, i + 1)

\* the rest of the path exists on every inner element of every outer element
RestExistsEverywhere(outer, mid, suf) ==
    \A i \in 1..Len(outer.v) :
        \A j \in 1..Len(ChainValue(outer.v[i], mid).v) :
            ChainExists(ChainValue(outer.v[i], mid).v[j], suf)

\* C3 (amended): two wildcards over an outer array give, for each outer
\* element in order, one match per element of the inner array it holds on
\* which the rest of the path exists, in inner element order (an outer
\* element that holds no inner array gives none); when every outer element
\* holds an inner array and the rest of the path exists on every inner
\* element, that is one match per inner element: k1*k2 for inner arrays of
\* one length k2.
C3_OuterThenInnerMatches ==
    LET segs == Intended(jsonPath) IN
    (Returned /\ TwoWildcardsOnArray(segs, jsonData))
        => LET outer == OuterArray(segs, jsonData)
               mid == Middle(segs)
               suf == Rest(segs)
           IN  /\ results = OuterMatches(outer, OuterPrefix(segs), mid, suf, 0)
               /\ (/\ \A i \in 1..Len(outer.v) : HoldsInnerArray(outer.v[i], mid)
                   /\ RestExistsEverywhere(outer, mid, suf))
                     => /\ Len(results) = Len(OuterThenInner(outer, mid, 0))
                        /\ \A k2 \in 0..MaxInner :
                              (\A i \in 1..Len(outer.v) :
                                  Len(ChainValue(outer.v[i], mid).v) = k2)
                                => Len(results) = Len(outer.v) * k2

\* two outer elements holding inner arrays of lengths 2 and 1: three
\* matches, (0,0), (0,1), (1,0)
C3_Witness ==
    LET segs == Intended(jsonPath) IN
    /\ Returned
    /\ TwoWildcardsOnArray(segs, jsonData)
    /\ Len(OuterArray(segs, jsonData).v) = 2
    /\ Len(results) = 3
    /\ results[2].path[FirstWildcard(segs)] = Num(0)
    /\ results[2].path[SecondWildcard(segs)] = Num(1)
    /\ results[3].path[FirstWildcard(segs)] = Num(1)
    /\ results[3].path[SecondWildcard(segs)] = Num(0)

----------------------------------------------------------------------------
(* C4 *)

\* C4: process returns a list whatever the document: a missing property, an
\* out-of-bounds index or a wildcard on a non-array prunes its branch, so a
\* match is never produced on a branch that fails, and when every branch
\* fails the list is empty.
C4_FailedBranchesPruned ==
    LET segs == Intended(jsonPath) IN
    /\ ppc \in {"new", "ready", "loop", "returned"}
    /\ Returned =>
          /\ Matches(jsonData, segs, <<>>) = <<>> => results = <<>>
          /\ \A m \in 1..Len(results) :
                /\ ChainExists(jsonData, results[m].path)
                /\ Len(results[m].path) = Len(segs)

\* after a wildcard over two elements, one branch failed on a missing
\* property and the other on a wildcard over a non-array
C4_Witness ==
    LET segs == Intended(jsonPath) IN
    /\ Returned
    /\ results = <<>>
    /\ Len(segs) >= 4 /\ segs[2].type = "wildcard" /\ segs[4].type = "wildcard"
    /\ ChainExists(jsonData, <<Str(ka)>>)
    /\ LET arr == ChainValue(jsonData, <<Str(ka)>>)
       IN  /\ arr.k = "array" /\ Len(arr.v) = 2
           /\ ~IsChild(arr.v[1], Str(kb))
           /\ IsChild(arr.v[2], Str(kb))
           /\ Child(arr.v[2], Str(kb)).k # "array"

\* an index past the end of the array gave the empty list
C4_WitnessOutOfBounds ==
    LET segs == Intended(jsonPath) IN
    /\ Returned
    /\ results = <<>>
    /\ segs = <<P(ka), I(2)>>
    /\ ChainExists(jsonData, <<Str(ka)>>)
    /\ ChainValue(jsonData, <<Str(ka)>>).k = "array"

----------------------------------------------------------------------------
(* Inputs of the transform specification *)

kd == <<"d">>
kn == <<"n">>
kx == <<"x">>
ky == <<"y">>
kz == <<"z">>

\* source documents {a: {b: [...]}, n: 7}; the elements of b are {c: 1},
\* {c: 2} and {d: 3}
SrcElems == {Obj1(kc, Num(1)), Obj1(kc, Num(2)), Obj1(kd, Num(3))}
SrcDocs ==
    {Obj2(ka, Obj1(kb, Arr(s)), kn, Num(7)) : s \in SeqsUpTo(SrcElems, MaxSrc)}

Text(segs) == Str(RenderPath(segs))
\* a source path with the suffix ".max()"
MaxText(segs) == Str(RenderPath(segs) \o <<".", "m", "a", "x", "(", ")">>)

SrcItems == <<P(ka), P(kb), W, P(kc)>>      \* $.a.b[*].c
SrcArray == <<P(ka), P(kb)>>                \* $.a.b
SrcScalar == <<P(kn)>>                      \* $.n
SrcMissing == <<P(kz)>>                     \* $.z

TgtX == <<P(kx)>>                           \* $.x
TgtXc == <<P(kx), P(kc)>>                   \* $.x.c
TgtY == <<P(ky)>>                           \* $.y
TgtXAll == <<P(kx), W>>                     \* $.x[*]
TgtXAllc == <<P(kx), W, P(kc)>>             \* $.x[*].c
TgtXAlld == <<P(kx), W, P(kd)>>             \* $.x[*].d
TgtXcAll == <<P(kx), P(kc), W>>             \* $.x.c[*]
TgtX0c == <<P(kx), I(0), P(kc)>>            \* $.x[0].c

TargetSegments ==
    {TgtX, TgtXc, TgtY, TgtXAll, TgtXAllc, TgtXAlld, TgtXcAll, TgtX0c}

Rule(src, tgt) == [source |-> src, target |-> tgt]

WellFormedRules ==
    { Rule(Text(SrcItems), Text(TgtXAllc)),
      Rule(Text(SrcItems), Text(TgtXAll)),
      Rule(Text(SrcItems), Text(TgtXcAll)),
      Rule(Text(SrcArray), Text(TgtXAlld)),
      Rule(Text(SrcScalar), Text(TgtXc)),
      Rule(Text(SrcScalar), Text(TgtY)),
      Rule(Text(SrcScalar), Text(TgtX0c)),
      Rule(Text(SrcMissing), Text(TgtX)),
      Rule(MaxText(SrcItems), Text(TgtY)) }

\* entries without a target, without a source
MalformedRules ==
    { Rule(Text(SrcScalar), Undefined),
      Rule(Undefined, Text(TgtY)) }

\* pathMappings: a list of rules, or no list at all
PathMappingsInputs ==
    {Arr(s) : s \in SeqsUpTo(WellFormedRules \cup MalformedRules, MaxRules)}
    \cup {Undefined, Str(<<"n", "o">>)}

----------------------------------------------------------------------------
(* The transform specification: one transform(sourceData, rules) call *)

ProcessIdle ==
    /\ jsonPath = <<>>
    /\ jsonData = Undefined
    /\ rule = <<>>
    /\ currentStates = <<>>
    /\ round = 0
    /\ results = <<>>
    /\ ppc = "idle"

Init ==
    /\ sourceData \in SrcDocs
    /\ pathMappings \in PathMappingsInputs
    /\ heap = <<>>
    /\ result = 0
    /\ ruleIdx = 0
    /\ tpc = "call"
    /\ accBefore = Undefined
    /\ prevRef = 0
    /\ lastExtracted = Undefined
    /\ writes = <<>>
    /\ nExtracted = 0
    /\ nWritten = 0
    /\ ProcessIdle
    /\ ValidateIdle
    /\ DebugIdle
    /\ ComposeIdle

\* transform, up to the reduce: pathMappings that is no array raises
TransformCall ==
    /\ tpc = "call"
    /\ IF ~isArray(pathMappings)
       THEN /\ tpc' = "thrown"
            /\ UNCHANGED <<heap, result>>
       ELSE /\ tpc' = "reduce"
            /\ heap' = <<EmptyObj>>
            /\ result' = 1
    /\ UNCHANGED <<sourceData, pathMappings, ruleIdx>>
    /\ UNCHANGED <<pvars, hvars, vvars>>
    /\ UNCHANGED <<dvars, cvars>>

\* one call of reduce's callback: transformSingleRule on the next rule
ReduceStep(r) ==
    /\ heap' = r.heap
    /\ result' = r.ref
    /\ tpc' = IF r.thrown THEN "thrown" ELSE "reduce"
    /\ lastExtracted' = r.extractedValue
    /\ writes' = writes \o r.calls
    /\ nExtracted' = nExtracted + (IF r.extracted THEN 1 ELSE 0)
    /\ nWritten' = nWritten + (IF Len(r.calls) > 0 THEN 1 ELSE 0)

ApplyRule ==
    /\ tpc = "reduce"
    /\ ruleIdx < Len(pathMappings.v)
    /\ ReduceStep(transformSingleRule(heap, sourceData,
                                      pathMappings.v[ruleIdx + 1], result))
    /\ accBefore' = heap[result]
    /\ prevRef' = result
    /\ ruleIdx' = ruleIdx + 1
    /\ UNCHANGED <<sourceData, pathMappings>>
    /\ UNCHANGED <<pvars, vvars>>
    /\ UNCHANGED <<dvars, cvars>>

\* reduce is through the list: transform returns the accumulator
TransformReturn ==
    /\ tpc = "reduce"
    /\ ruleIdx = Len(pathMappings.v)
    /\ tpc' = "returned"
    /\ UNCHANGED <<sourceData, pathMappings, heap, result, ruleIdx>>
    /\ UNCHANGED <<pvars, hvars, vvars>>
    /\ UNCHANGED <<dvars, cvars>>

Next == TransformCall \/ ApplyRule \/ TransformReturn

Spec == Init /\ [][Next]_vars

----------------------------------------------------------------------------
(* What a transform result holds, read the way JavaScript reads           *)
(* out.x[0].c: every step is a property read, undefined below a value     *)
(* that is no object                                                      *)

\* the key of a chain entry: a name, or the decimal text of an index
KeyOf(entry) == IF entry.k = "string" THEN entry.v ELSE NatToChars(entry.v)

RECURSIVE ReadKeys(_, _)
ReadKeys(v, keys) ==
    IF keys = <<>> THEN v
    ELSE IF ~isObject(v) THEN Undefined
    ELSE ReadKeys(GetProp(v, keys[1]), Tail(keys))

ReadChain(v, chain) == ReadKeys(v, [i \in 1..Len(chain) |-> KeyOf(chain[i])])

\* the segments a target text stands for
IntendedTarget(text) == CHOOSE segs \in TargetSegments : RenderPath(segs) = text

\* a rule has been applied and returned; LastRule is that rule
RuleApplied == ruleIdx >= 1 /\ tpc \in {"reduce", "returned"}
LastRule == pathMappings.v[ruleIdx]
LastTarget == IntendedTarget(LastRule.target.v)

FirstWildcardOf(segs) ==
    CHOOSE i \in WildcardPositions(segs) :
        \A j \in WildcardPositions(segs) : i <= j

\* the chain before the first wildcard of the target, and the chain after it
TargetPrefix(segs) == ChainOf(Take(segs, FirstWildcardOf(segs) - 1))
TargetRest(segs) == ChainOf(Drop(segs, FirstWildcardOf(segs)))

----------------------------------------------------------------------------
(* C5 *)

\* the rule just applied handed a list of n >= 1 values to a target with
\* one wildcard, and the accumulator held nothing at the target prefix
ListToOneWildcard ==
    /\ RuleApplied
    /\ isArray(lastExtracted) /\ Len(lastExtracted.v) >= 1
    /\ Cardinality(WildcardPositions(LastTarget)) = 1
    /\ ReadChain(accBefore, TargetPrefix(LastTarget)) = Undefined

\* C5: a list of n >= 1 values written to a target with one wildcard, on an
\* accumulator with nothing at the target prefix, leaves at the prefix a
\* list of exactly n elements, element i carrying values[i] at the rest of
\* the target path
C5_ListWriteExpandsPositionally ==
    ListToOneWildcard =>
        LET at == ReadChain(heap[result], TargetPrefix(LastTarget))
        IN  /\ isArray(at)
            /\ Len(at.v) = Len(lastExtracted.v)
            /\ \A i \in 1..Len(lastExtracted.v) :
                  ReadChain(at.v[i], TargetRest(LastTarget)) = lastExtracted.v[i]

----------------------------------------------------------------------------
(* C6 *)

RoundTripRules == Arr(<< Rule(Text(SrcItems), Text(TgtXAllc)) >>)
SourceItems == sourceData.v[ka].v[kb]

\* C6: the one rule $.a.b[*].c -> $.x[*].c, on a source array a.b of any
\* length k >= 1, returns an output whose x is a list of k elements with
\* x[i].c equal to the source's a.b[i].c for every i
C6_RoundTrip ==
    (/\ tpc = "returned"
     /\ pathMappings = RoundTripRules
     /\ Len(SourceItems.v) >= 1) =>
        LET x == ReadChain(heap[result], << Str(kx) >>)
        IN  /\ isArray(x)
            /\ Len(x.v) = Len(SourceItems.v)
            /\ \A i \in 1..Len(SourceItems.v) :
                  ReadChain(x.v[i], << Str(kc) >>)
                    = ReadChain(SourceItems.v[i], << Str(kc) >>)

----------------------------------------------------------------------------
(* C7 *)

\* the rule just applied extracted the empty list for a target with a
\* wildcard
EmptyListToWildcard ==
    /\ RuleApplied
    /\ lastExtracted = Arr(<<>>)
    /\ HasWildcard(LastTarget)

\* C7: when the extracted value is the empty list and the target holds a
\* wildcard, the resulting document holds an empty list at the target
\* prefix before the wildcard (targets of the model name a key before the
\* wildcard)
C7_EmptyListAtPrefix ==
    EmptyListToWildcard =>
        ReadChain(heap[result], TargetPrefix(LastTarget)) = Arr(<<>>)

\* an empty list was written where the accumulator held nothing
C7_Witness ==
    /\ EmptyListToWildcard
    /\ ReadChain(accBefore, TargetPrefix(LastTarget)) = Undefined
    /\ has(heap[result], kx)

----------------------------------------------------------------------------
(* C8 *)

\* two written locations overlap: one is the other, or lies below it
Overlap(keys1, keys2) ==
    \/ Len(keys1) <= Len(keys2) /\ Take(keys2, Len(keys1)) = keys1
    \/ Len(keys2) <= Len(keys1) /\ Take(keys1, Len(keys2)) = keys2

\* C8: last write wins: in the output of transform, every written location
\* that no later write overlaps holds the value written there
C8_LastWriteWins ==
    tpc = "returned" =>
        \A i \in 1..Len(writes) :
            (\A j \in (i + 1)..Len(writes) :
                ~Overlap(writes[i].keys, writes[j].keys))
            => ReadKeys(heap[result], writes[i].keys) = writes[i].value

----------------------------------------------------------------------------
(* C9 *)

\* C9: no setValueAtPath call and no transformSingleRule call changes the
\* accumulator it is given: the accumulator of every call still is what it
\* was when the call was made, also after a later rule has raised
C9_AccumulatorNotMutated ==
    /\ ruleIdx >= 1 => heap[prevRef] = accBefore
    /\ \A i \in 1..Len(writes) : heap[writes[i].inRef] = writes[i].inValue

\* a rule has written to a non-empty accumulator and the next rule raised
C9_Witness ==
    /\ tpc = "thrown"
    /\ Len(writes) >= 2
    /\ \E i \in 1..Len(writes) :
          /\ writes[i].inValue # EmptyObj
          /\ heap[writes[i].outRef] # writes[i].inValue

----------------------------------------------------------------------------
(* C10 *)

\* pathMappings is no list, or an entry lacks a source or a target
Malformed(mappings) ==
    \/ ~isArray(mappings)
    \/ \E i \in 1..Len(mappings.v) :
          \/ mappings.v[i].source.k # "string"
          \/ mappings.v[i].target.k # "string"

\* C10: transform fails fast: on malformed pathMappings nothing is ever
\* extracted or written, and transform does not return
C10_FailFast ==
    Malformed(pathMappings) =>
        /\ nExtracted = 0
        /\ nWritten = 0
        /\ tpc # "returned"

----------------------------------------------------------------------------
(* The parse specification: new TreeAutomaton(jsonPath) on any text *)

\* free texts: "$" and up to MaxPathLen characters of the path alphabet
ParseAlphabet == {".", "[", "]", "*", "a", "0", "1"}
ParseTexts == {<<"$">> \o t : t \in SeqsUpTo(ParseAlphabet, MaxPathLen)}

\* paths of the grammar: "$" and up to MaxSegs of .name, [n] and [*]
GrammarSegmentPool ==
    {P(ka), P(<<"a", "0">>), I(0), I(1), I(10), W}
GrammarSegments == SeqsUpTo(GrammarSegmentPool, MaxSegs)
GrammarPaths == {RenderPath(segs) : segs \in GrammarSegments}

InitParse ==
    /\ jsonPath \in ParseTexts \cup GrammarPaths
    /\ jsonData = Undefined
    /\ rule = <<>>
    /\ currentStates = <<>>
    /\ round = 0
    /\ results = <<>>
    /\ ppc = "new"
    /\ TransformIdle
    /\ ValidateIdle
    /\ DebugIdle
    /\ ComposeIdle

NextParse == Construct

SpecParse == InitParse /\ [][NextParse]_vars

\* the constructor has returned, this.rule is set
Constructed == ppc = "ready"

----------------------------------------------------------------------------
(* C11 *)

\* the text holds a "[" that no "]" follows
UnterminatedBracket(text) ==
    \E i \in 1..Len(text) :
        /\ text[i] = "["
        /\ \A j \in (i + 1)..Len(text) : text[j] # "]"

\* C11: parsing a path with an unterminated "[" is reported as a
\* ParseError: the constructor does not return a segment list for it
C11_UnterminatedBracketRaises ==
    (ppc # "new" /\ UnterminatedBracket(jsonPath)) => ppc = "thrown"

----------------------------------------------------------------------------
(* C12 *)

\* the text holds a bracket group whose content is neither digits nor "*"
BadBracketContent(text) ==
    \E i \in 1..Len(text) : \E j \in (i + 1)..Len(text) :
        /\ text[i] = "[" /\ text[j] = "]"
        /\ \A m \in (i + 1)..(j - 1) : text[m] \notin {"[", "]"}
        /\ LET content == SubSeq(text, i + 1, j - 1)
           IN  /\ ~(content # <<>> /\ AllDigits(content))
               /\ content # <<"*">>

\* C12: parsing a path with a bracket group that holds neither digits nor
\* "*" surfaces a ParseError: the constructor does not return a segment
\* list for it
C12_BadBracketContentRaises ==
    (ppc # "new" /\ BadBracketContent(jsonPath)) => ppc = "thrown"

----------------------------------------------------------------------------
(* C16 *)

\* the segments a path of the grammar is the rendering of
GrammarMeaning(text) ==
    CHOOSE segs \in GrammarSegments : RenderPath(segs) = text

\* C16: parseJsonPath maps a path of the grammar to its segments: in the
\* same order one property segment per .name, one index segment with the
\* number n per [n], one wildcard segment per [*], and nothing else
C16_GrammarPathParsed ==
    (Constructed /\ jsonPath \in GrammarPaths) =>
        rule = GrammarMeaning(jsonPath)

\* a path with a two-digit index, a wildcard and a name was parsed
C16_Witness ==
    /\ Constructed
    /\ jsonPath = RenderPath(<<I(10), W, P(<<"a", "0">>)>>)
    /\ Len(rule) = 3

----------------------------------------------------------------------------
(* The extract specification: one extractValues(jsonData, jsonPath) call. *)
(* sourceData is the document, jsonPath the path text, lastExtracted the  *)
(* value returned; tpc is "extract", then "returned" or "thrown"          *)

\* documents {a: [numbers], n: 7}
ExtractNumbers == {Num(1), Num(2), Num(3)}
ExtractDocs ==
    {Obj2(ka, Arr(s), kn, Num(7)) : s \in SeqsUpTo(ExtractNumbers, MaxVals)}

\* the paths without suffix: $.a[*], $.a[0], $.n and $.z
ExtractBases == { <<P(ka), W>>, <<P(ka), I(0)>>, <<P(kn)>>, <<P(kz)>> }

\* names that are no aggregate operation
UnknownNames == InheritedNames \cup { <<"f", "o", "o">>, <<"m", "a", "x", "x">> }

\* the text of segs with the suffix .name()
WithSuffix(segs, name) == RenderPath(segs) \o <<".">> \o name \o <<"(", ")">>

ExtractPaths ==
    {RenderPath(segs) : segs \in ExtractBases}
    \cup {WithSuffix(segs, name) :
            segs \in ExtractBases, name \in OpNames \cup UnknownNames}

InitExtract ==
    /\ sourceData \in ExtractDocs
    /\ jsonPath \in ExtractPaths
    /\ tpc = "extract"
    /\ lastExtracted = Undefined
    /\ nExtracted = 0
    /\ jsonData = Undefined
    /\ rule = <<>>
    /\ currentStates = <<>>
    /\ round = 0
    /\ results = <<>>
    /\ ppc = "idle"
    /\ pathMappings = Undefined
    /\ heap = <<>>
    /\ result = 0
    /\ ruleIdx = 0
    /\ accBefore = Undefined
    /\ prevRef = 0
    /\ writes = <<>>
    /\ nWritten = 0
    /\ ValidateIdle
    /\ DebugIdle
    /\ ComposeIdle

ExtractOutcome(value) ==
    IF value.k = "raised"
    THEN tpc' = "thrown" /\ lastExtracted' = Undefined
    ELSE tpc' = "returned" /\ lastExtracted' = value

\* extractValues(sourceData, jsonPath)
Extract ==
    /\ tpc = "extract"
    /\ ExtractOutcome(extractValues(sourceData, jsonPath))
    /\ nExtracted' = nExtracted + 1
    /\ UNCHANGED <<sourceData, pathMappings, heap, result, ruleIdx>>
    /\ UNCHANGED <<accBefore, prevRef, writes, nWritten>>
    /\ UNCHANGED <<pvars, vvars>>
    /\ UNCHANGED <<dvars, cvars>>

NextExtract == Extract

SpecExtract == InitExtract /\ [][NextExtract]_vars

\* the values of the matches of segs, in order, and what extractValues
\* returns for them when the path has no suffix
MatchedValues(doc, segs) == ValuesOf(Matches(doc, segs, <<>>))
Collapsed(values) == IF Len(values) = 1 THEN values[1] ELSE Arr(values)

Extracted == tpc \in {"returned", "thrown"}

----------------------------------------------------------------------------
(* C13 *)

\* C13: for a path ending in .name() with a name that is none of the ten
\* aggregate operations, extractValues applies no function and returns what
\* it returns for the path without the suffix
C13_UnknownSuffixIgnored ==
    \A segs \in ExtractBases : \A name \in UnknownNames :
        (Extracted /\ jsonPath = WithSuffix(segs, name)) =>
            /\ tpc = "returned"
            /\ lastExtracted = Collapsed(MatchedValues(sourceData, segs))

----------------------------------------------------------------------------
(* C14 *)

\* C14: for every aggregate operation op and path p, extractValues on
\* p.op() returns op applied to the ordered list of the values p matches,
\* also for one match and for none; a path without a suffix is parsed with
\* operation null and its text unchanged
C14_AggregateApplied ==
    /\ \A segs \in ExtractBases : \A op \in OpNames :
          (Extracted /\ jsonPath = WithSuffix(segs, op)) =>
              /\ tpc = "returned"
              /\ lastExtracted = aggregateOps(op, MatchedValues(sourceData, segs))
    /\ \A segs \in ExtractBases :
          jsonPath = RenderPath(segs) =>
              parsePathWithOperation(jsonPath)
                = [path |-> jsonPath, operation |-> Null]

\* unique on the one match of $.n gives the list [7], not the value 7
C14_Witness ==
    /\ tpc = "returned"
    /\ jsonPath = WithSuffix(<<P(kn)>>, <<"u", "n", "i", "q", "u", "e">>)
    /\ lastExtracted = Arr(<<Num(7)>>)

----------------------------------------------------------------------------
(* C15 *)

ZeroOnEmpty == { <<"s", "u", "m">>, <<"c", "o", "u", "n", "t">> }
UndefinedOnEmpty ==
    { <<"m", "a", "x">>, <<"m", "i", "n">>,
      <<"f", "i", "r", "s", "t">>, <<"l", "a", "s", "t">> }

\* C15: on the empty list sum and count return 0, and max, min, first and
\* last return undefined without raising
C15_ReducersOnEmptyList ==
    \A segs \in ExtractBases : \A op \in ZeroOnEmpty \cup UndefinedOnEmpty :
        (/\ Extracted
         /\ jsonPath = WithSuffix(segs, op)
         /\ MatchedValues(sourceData, segs) = <<>>) =>
            /\ tpc = "returned"
            /\ lastExtracted = IF op \in ZeroOnEmpty THEN Num(0) ELSE Undefined

\* max was applied to the matches of a wildcard over the empty array
C15_Witness ==
    /\ tpc = "returned"
    /\ jsonPath = WithSuffix(<<P(ka), W>>, <<"m", "a", "x">>)
    /\ GetProp(sourceData, ka) = Arr(<<>>)
    /\ lastExtracted = Undefined

----------------------------------------------------------------------------
(* C17 *)

\* the source paths without aggregate suffix, and the segments of one
PlainSourceSegments == {SrcItems, SrcArray, SrcScalar, SrcMissing}
PlainSources == {Text(segs) : segs \in PlainSourceSegments}
IntendedSource(text) ==
    CHOOSE segs \in PlainSourceSegments : RenderPath(segs) = text
LastSource == IntendedSource(LastRule.source.v)

\* the rule just applied has a source without suffix that matched nothing
NoMatchRuleApplied ==
    /\ RuleApplied
    /\ LastRule.source \in PlainSources
    /\ MatchedValues(sourceData, LastSource) = <<>>

\* the place the target names: the prefix before its wildcard, if it has one
TargetPlace(segs) ==
    IF HasWildcard(segs) THEN TargetPrefix(segs) ELSE ChainOf(segs)

----------------------------------------------------------------------------
(* C20 *)

\* C20: the value a rule hands to the writer is the one matched value only
\* when the source has exactly one match and the target has no wildcard; in
\* every other case it is the ordered list of the matched values
C20_ScalarOnlyWithoutWildcard ==
    (RuleApplied /\ LastRule.source \in PlainSources) =>
        LET values == MatchedValues(sourceData, LastSource)
        IN  lastExtracted =
                IF Len(values) = 1 /\ ~HasWildcard(LastTarget)
                THEN values[1] ELSE Arr(values)

----------------------------------------------------------------------------
(* C19 *)

\* the process call runs to its end: the constructor and every iteration of
\* the while loop are steps of one sequential execution
SpecProcessFair == SpecProcess /\ WF_vars(NextProcess)

\* C19 as stated: process has executed at most as many rounds as there are
\* segments
C19_Original ==
    ppc \in {"loop", "returned"} => round <= Len(rule)

\* after k rounds every live state has consumed exactly k segments, and
\* the number of rounds is at most the number of segments, or 1 for the
\* empty segment sequence
RoundsBounded ==
    /\ ppc = "loop" =>
          \A i \in 1..Len(currentStates) : currentStates[i].ruleIndex = round
    /\ ppc \in {"loop", "returned"} =>
          round <= (IF Len(rule) = 0 THEN 1 ELSE Len(rule))

\* C19: process terminates on every document and segment sequence, after
\* at most as many rounds as there are segments (one round for the empty
\* sequence), every successor of a round having consumed exactly one more
\* segment
C19_TerminatesWithinSegments ==
    /\ <>(ppc = "returned")
    /\ []RoundsBounded

\* a five-segment path was matched in its fifth round
C19_Witness ==
    /\ ppc = "returned"
    /\ Len(rule) = 5
    /\ round = 5
    /\ Len(results) >= 1

----------------------------------------------------------------------------
(* transformer.js: validateRules *)

True == [k |-> "boolean", v |-> TRUE]
False == [k |-> "boolean", v |-> FALSE]

isString(x) == x.k = "string"

pathMappingsKey == <<"p", "a", "t", "h", "M", "a", "p", "p", "i", "n", "g", "s">>
sourceKey == <<"s", "o", "u", "r", "c", "e">>
targetKey == <<"t", "a", "r", "g", "e", "t">>

\* _.every(list, rule => _.isString(rule.source) && _.isString(rule.target)),
\* from position i on: the entries are visited in order up to the first
\* that fails; rule.source of null or undefined raises a TypeError
RECURSIVE EveryRule(_, _)
EveryRule(list, i) ==
    IF i > Len(list) THEN True
    ELSE IF list[i].k \in {"undefined", "null"} THEN Raised("TypeError")
    ELSE IF /\ isString(GetProp(list[i], sourceKey))
            /\ isString(GetProp(list[i], targetKey))
    THEN EveryRule(list, i + 1)
    ELSE False

validateRules(r) ==
    IF ~isObject(r) \/ ~isArray(GetProp(r, pathMappingsKey)) THEN False
    ELSE EveryRule(GetProp(r, pathMappingsKey).v, 1)

----------------------------------------------------------------------------
(* The validate specification: one validateRules(rules) call *)

PathA == Str(<<"$", ".", "a">>)
PathB == Str(<<"$", ".", "b">>)

\* entries of pathMappings: a rule, rules that lack a string source or
\* target, and values that are no objects
GoodEntry == Obj2(sourceKey, PathA, targetKey, PathB)
BadEntries ==
    { Obj1(sourceKey, PathA), Obj1(targetKey, PathB),
      Obj2(sourceKey, Num(1), targetKey, PathB),
      Obj2(sourceKey, PathA, targetKey, Null),
      EmptyObj, Num(5), Null, Undefined }

RulesInputs ==
    {Obj1(pathMappingsKey, Arr(l)) :
        l \in SeqsUpTo({GoodEntry} \cup BadEntries, MaxEntries)}
    \cup { Undefined, Null, Num(0), PathA, EmptyObj, Arr(<<>>),
           Obj1(pathMappingsKey, Str(<<"n", "o">>)),
           Obj1(pathMappingsKey, Obj1(<<"0">>, GoodEntry)),
           Obj1(sourceKey, PathA) }

InitValidate ==
    /\ rules \in RulesInputs
    /\ valid = Undefined
    /\ vpc = "call"
    /\ ProcessIdle
    /\ TransformIdle
    /\ DebugIdle
    /\ ComposeIdle

ValidateOutcome(value) ==
    IF value.k = "raised"
    THEN vpc' = "thrown" /\ valid' = Undefined
    ELSE vpc' = "returned" /\ valid' = value

\* validateRules(rules)
Validate ==
    /\ vpc = "call"
    /\ ValidateOutcome(validateRules(rules))
    /\ UNCHANGED rules
    /\ UNCHANGED <<pvars, tvars, hvars>>
    /\ UNCHANGED <<dvars, cvars>>

NextValidate == Validate

SpecValidate == InitValidate /\ [][NextValidate]_vars

----------------------------------------------------------------------------
(* C18 *)

\* rules is an object whose pathMappings is a list in which every entry
\* has a string source and a string target
HasStringAt(entry, key) ==
    /\ entry.k = "object"
    /\ key \in DOMAIN entry.v
    /\ entry.v[key].k = "string"

WellShaped(r) ==
    /\ r.k = "object"
    /\ pathMappingsKey \in DOMAIN r.v
    /\ r.v[pathMappingsKey].k = "array"
    /\ \A i \in 1..Len(r.v[pathMappingsKey].v) :
          /\ HasStringAt(r.v[pathMappingsKey].v[i], sourceKey)
          /\ HasStringAt(r.v[pathMappingsKey].v[i], targetKey)

\* C18: validateRules returns true exactly for the well-shaped rules and
\* false for every other input
C18_ValidateRulesExact ==
    vpc \in {"returned", "thrown"} =>
        /\ vpc = "returned"
        /\ valid = IF WellShaped(rules) THEN True ELSE False

----------------------------------------------------------------------------
(* C22 *)

PathsOf(list) == [i \in 1..Len(list) |-> list[i].path]
CurrentPathsOf(states) == [i \in 1..Len(states) |-> states[i].currentPath]
Distinct(list) == \A i, j \in 1..Len(list) : list[i] = list[j] => i = j

\* the locations of the document that satisfy the first n segments
Locations(n) == PathsOf(Matches(jsonData, Take(rule, n), <<>>))

\* the step the segment makes from the value v succeeds
StepSucceeds(v, seg) ==
    IF seg.type = "wildcard" THEN v.k = "array" ELSE IsChild(v, seg.value)

SuccessorCount(v, seg) ==
    IF ~StepSucceeds(v, seg) THEN 0
    ELSE IF seg.type = "wildcard" THEN Len(v.v) ELSE 1

\* C22: after round i the live states are, one for one, the locations of
\* the document that satisfy the first i segments: no two of them carry the
\* same path, a wildcard over an array of length k gives exactly k
\* successors and a failed property, index or wildcard step gives none
C22_LiveStatesAreLocations ==
    /\ ppc = "loop" =>
          /\ round <= Len(rule)
          /\ CurrentPathsOf(currentStates) = Locations(round)
          /\ Distinct(CurrentPathsOf(currentStates))
          /\ \A i \in 1..Len(currentStates) :
                round < Len(rule) =>
                    Len(transition(currentStates[i], rule))
                        = SuccessorCount(currentStates[i].currentValue,
                                         rule[round + 1])
    /\ Returned =>
          /\ PathsOf(results) = Locations(Len(rule))
          /\ Distinct(PathsOf(results))

\* two live states after a wildcard round
C22_Witness ==
    /\ ppc = "loop"
    /\ round = 2
    /\ rule[2].type = "wildcard"
    /\ Len(currentStates) = 2

\* a whole branch died in a round and another one lived on
C22_WitnessPruned ==
    /\ ppc = "loop"
    /\ round = 3
    /\ Len(rule) > 3
    /\ Len(currentStates) = 1
    /\ Len(Locations(2)) = 2

----------------------------------------------------------------------------
(* C23 *)

SameRuleIndex(states) ==
    \A i, j \in 1..Len(states) : states[i].ruleIndex = states[j].ruleIndex

SuccessorsUniform(nextStates) ==
    /\ SameRuleIndex(nextStates)
    /\ \/ SelectStates(nextStates, rule, TRUE) = <<>>
       \/ SelectStates(nextStates, rule, FALSE) = <<>>

\* C23: in every round all successor states have consumed the same number
\* of segments, so the accepting and the continuing states of a round are
\* never both present: the return at the first accepting round discards no
\* live state and all returned matches come from one round
C23_RoundsAreUniform ==
    /\ (ppc = "loop" /\ Len(currentStates) > 0) =>
          SuccessorsUniform(NextStates(currentStates, rule))
    /\ Returned =>
          \A i, j \in 1..Len(results) :
              Len(results[i].path) = Len(results[j].path)

\* a round with several accepting successors is about to run
C23_Witness ==
    /\ ppc = "loop"
    /\ Len(SelectStates(NextStates(currentStates, rule), rule, TRUE)) >= 2

\* a round with several continuing successors is about to run
C23_WitnessContinuing ==
    /\ ppc = "loop"
    /\ Len(SelectStates(NextStates(currentStates, rule), rule, FALSE)) >= 2

----------------------------------------------------------------------------
(* C24 *)

EntryFits(entry, seg) ==
    CASE seg.type = "property" -> entry = seg.value
      [] seg.type = "index" -> entry = seg.value
      [] seg.type = "wildcard" -> entry.k = "number"

MatchFollowsRule(m) ==
    /\ Len(m.path) = Len(rule)
    /\ \A j \in 1..Len(rule) : EntryFits(m.path[j], rule[j])
    /\ ChainExists(jsonData, m.path)
    /\ ChainValue(jsonData, m.path) = m.value

\* C24: every returned match consumed the whole segment sequence: its path
\* has one entry per segment, the name for a property, n for index n and
\* an index inside the array for a wildcard, and following the path from
\* the root of the document reaches the value of the match
C24_MatchesFollowTheRule ==
    Returned => \A i \in 1..Len(results) : MatchFollowsRule(results[i])

\* matches through a property, a wildcard and an index were returned
C24_Witness ==
    /\ Returned
    /\ Len(results) >= 2
    /\ \E j \in 1..Len(rule) : rule[j].type = "wildcard"
    /\ \E j \in 1..Len(rule) : rule[j].type = "index"

----------------------------------------------------------------------------
(* C21 *)

\* the setValueAtPath calls of the first rule of pathMappings, and those of
\* the rules after it
FirstRuleCalls ==
    transformSingleRule(<<EmptyObj>>, sourceData, pathMappings.v[1], 1).calls
LaterCalls == Drop(writes, Len(FirstRuleCalls))

\* the later rule of a pair has the target P[*].g, with P = x
TwoRulesApplied ==
    /\ tpc = "returned"
    /\ isArray(pathMappings)
    /\ Len(pathMappings.v) = 2
LaterWildcardTarget ==
    /\ TwoRulesApplied
    /\ LastRule.target \in {Text(TgtXAllc), Text(TgtXAlld)}

\* keys of the form P, i, f with f different from the later rule's g
ElementField(keys) ==
    /\ Len(keys) = 3
    /\ keys[1] = kx
    /\ AllDigits(keys[2])
EarlierField(keys) ==
    /\ ElementField(keys)
    /\ keys[3] # LastTarget[3].value.v

\* C21: a later rule with the wildcard target P[*].g leaves every value an
\* earlier rule wrote at P[i].f, f different from g, in place, next to the
\* g values it writes itself, whatever the two sources matched
C21_WildcardWriteKeepsFields ==
    LaterWildcardTarget =>
        /\ \A i \in 1..Len(FirstRuleCalls) :
              EarlierField(FirstRuleCalls[i].keys) =>
                  ReadKeys(heap[result], FirstRuleCalls[i].keys)
                      = FirstRuleCalls[i].value
        /\ \A i \in 1..Len(LaterCalls) :
              ElementField(LaterCalls[i].keys) =>
                  ReadKeys(heap[result], LaterCalls[i].keys)
                      = LaterCalls[i].value

\* the same, for a later rule whose source matched something
C21_KeptWhenLaterSourceMatches ==
    (LaterWildcardTarget /\ lastExtracted # Arr(<<>>)) =>
        C21_WildcardWriteKeepsFields

----------------------------------------------------------------------------
(* C25 *)

\* transform with the two rules of pathMappings in the other order
ApplyAfter(r, rl) == transformSingleRule(r.heap, sourceData, rl, r.ref)
ValueOf(r) == IF r.thrown THEN Raised("TypeError") ELSE r.heap[r.ref]
ExchangedResult ==
    ValueOf(ApplyAfter(
        transformSingleRule(<<EmptyObj>>, sourceData, pathMappings.v[2], 1),
        pathMappings.v[1]))

\* no location written by one rule is a prefix of one written by the other
DisjointWrites ==
    \A i \in 1..Len(FirstRuleCalls) : \A j \in 1..Len(LaterCalls) :
        ~Overlap(FirstRuleCalls[i].keys, LaterCalls[j].keys)

\* C25: two rules whose written target locations are disjoint commute:
\* transform gives the same document whichever of them comes first
C25_DisjointRulesCommute ==
    (TwoRulesApplied /\ DisjointWrites) => heap[result] = ExchangedResult

\* the same, for rules that wrote below different top-level keys
C25_CommuteUnderDifferentKeys ==
    (/\ TwoRulesApplied
     /\ \A i \in 1..Len(FirstRuleCalls) : \A j \in 1..Len(LaterCalls) :
            FirstRuleCalls[i].keys[1] # LaterCalls[j].keys[1])
    => heap[result] = ExchangedResult

----------------------------------------------------------------------------
(* transformer.js: debugTransform, next to a transform call on the same   *)
(* sourceData and pathMappings                                             *)

InitDebug ==
    /\ sourceData \in SrcDocs
    /\ pathMappings \in PathMappingsInputs
    /\ heap = <<>>
    /\ result = 0
    /\ ruleIdx = 0
    /\ tpc = "call"
    /\ accBefore = Undefined
    /\ prevRef = 0
    /\ lastExtracted = Undefined
    /\ writes = <<>>
    /\ nExtracted = 0
    /\ nWritten = 0
    /\ currentResult = Undefined
    /\ steps = <<>>
    /\ stepIdx = 0
    /\ finalResult = Undefined
    /\ dpc = "call"
    /\ ProcessIdle
    /\ ValidateIdle
    /\ ComposeIdle

\* debugTransform, up to the for loop.  for...of raises a TypeError on
\* pathMappings undefined; over a string it takes the characters as rules,
\* and the first one raises in extractValues, its source being undefined.
\* The two calls run one after the other: the transform call has ended
DebugCall ==
    /\ dpc = "call"
    /\ tpc \in {"returned", "thrown"}
    /\ IF isArray(pathMappings)
       THEN /\ currentResult' = EmptyObj
            /\ dpc' = "loop"
       ELSE /\ currentResult' = currentResult
            /\ dpc' = "thrown"
    /\ UNCHANGED <<steps, stepIdx, finalResult>>
    /\ UNCHANGED <<pvars, tvars, hvars, vvars, cvars>>

\* extractValues(sourceData, rule.source)
DebugExtracted(rl) ==
    IF rl.source.k # "string" THEN Raised("TypeError")
    ELSE extractValues(sourceData, rl.source.v)

\* mutant: previousResult is taken after the rule was applied
DebugStepRecord_SnapshotLate(rl, extractedValue, before, after) ==
    [rule |-> rl,
     extractedValue |-> extractedValue,
     previousResult |-> cloneDeep(after),
     newResult |-> cloneDeep(after)]

\* the object pushed to steps; before and after are currentResult before
\* and after the transformSingleRule call
DebugStepRecord(rl, extractedValue, before, after) ==
    [rule |-> rl,
     extractedValue |-> extractedValue,
     previousResult |-> cloneDeep(before),
     newResult |-> cloneDeep(after)]

\* the rest of the loop body, r what transformSingleRule returned
DebugPush(rl, extractedValue, r) ==
    IF r.thrown
    THEN /\ dpc' = "thrown"
         /\ UNCHANGED <<currentResult, steps>>
    ELSE /\ currentResult' = r.heap[r.ref]
         /\ steps' = Append(steps,
                DebugStepRecord(rl, extractedValue, currentResult,
                                r.heap[r.ref]))
         /\ dpc' = "loop"

DebugApply(rl, extractedValue) ==
    IF extractedValue.k = "raised"
    THEN /\ dpc' = "thrown"
         /\ UNCHANGED <<currentResult, steps>>
    ELSE DebugPush(rl, extractedValue,
                   transformSingleRule(<<currentResult>>, sourceData, rl, 1))

\* one iteration of the for loop
DebugStep ==
    /\ dpc = "loop"
    /\ stepIdx < Len(pathMappings.v)
    /\ DebugApply(pathMappings.v[stepIdx + 1],
                  DebugExtracted(pathMappings.v[stepIdx + 1]))
    /\ stepIdx' = stepIdx + 1
    /\ UNCHANGED finalResult
    /\ UNCHANGED <<pvars, tvars, hvars, vvars, cvars>>

\* the loop is through the list: return {finalResult, steps}
DebugReturn ==
    /\ dpc = "loop"
    /\ stepIdx = Len(pathMappings.v)
    /\ finalResult' = currentResult
    /\ dpc' = "returned"
    /\ UNCHANGED <<currentResult, steps, stepIdx>>
    /\ UNCHANGED <<pvars, tvars, hvars, vvars, cvars>>

NextDebug ==
    \/ TransformCall \/ ApplyRule \/ TransformReturn
    \/ DebugCall \/ DebugStep \/ DebugReturn

SpecDebug == InitDebug /\ [][NextDebug]_vars

----------------------------------------------------------------------------
(* C26 *)

TransformAccepted == tpc = "returned"
DebugEnded == dpc \in {"returned", "thrown"}

StepsChained ==
    \A i \in 1..Len(steps) :
        steps[i].previousResult
            = IF i = 1 THEN EmptyObj ELSE steps[i - 1].newResult

\* C26: for every source document and every rule list that transform
\* accepts, debugTransform returns, its finalResult is the result of
\* transform, it has recorded one step per rule, in the order of the rules,
\* and the previousResult of each step is the newResult of the step before
\* it, the empty document for the first step
C26_DebugRefinesTransform ==
    (TransformAccepted /\ DebugEnded) =>
        /\ dpc = "returned"
        /\ finalResult = heap[result]
        /\ Len(steps) = Len(pathMappings.v)
        /\ \A i \in 1..Len(steps) : steps[i].rule = pathMappings.v[i]
        /\ StepsChained

\* both calls returned on a list of two rules, the second of which wrote
\* over what the first one had written
C26_Witness ==
    /\ TransformAccepted
    /\ dpc = "returned"
    /\ Len(steps) = 2
    /\ steps[1].newResult # EmptyObj
    /\ steps[2].newResult # steps[1].newResult

----------------------------------------------------------------------------
(* transformer.js: composeTransformations; index.js: pipe *)

\* the functions handed over: x => x + 1, x => 2 * x and one that throws
addOne == "addOne"
double == "double"
failing == "failing"
ComposeFunctions == {addOne, double, failing}
ComposeInputs == {Num(0), Num(1), Num(2)}

\* fn(value)
Call(fn, value) ==
    CASE fn = addOne -> Num(value.v + 1)
      [] fn = double -> Num(2 * value.v)
      [] fn = failing -> Raised("Error")

\* mutant: the list is walked from its first element (_.reduce)
reduceRightIndex_FromLeft(length, done) == done + 1

\* the position _.reduceRight visits after done callback calls: the last
\* element first
reduceRightIndex(length, done) == length - done

\* pipe(...fns)(value): fns.reduce((acc, fn) => fn(acc), value); a
\* function that throws ends the call
RECURSIVE pipeFrom(_, _, _)
pipeFrom(fns, i, accumulated) ==
    IF i > Len(fns) \/ accumulated.k = "raised" THEN accumulated
    ELSE pipeFrom(fns, i + 1, Call(fns[i], accumulated))

pipe(fns, value) == pipeFrom(fns, 1, value)

InitCompose ==
    /\ transformFunctions \in SeqsUpTo(ComposeFunctions, MaxFns)
    /\ composeInput \in ComposeInputs
    /\ composeResult = Undefined
    /\ composeDone = 0
    /\ applied = <<>>
    /\ cpc = "call"
    /\ ProcessIdle
    /\ TransformIdle
    /\ ValidateIdle
    /\ DebugIdle

\* composeTransformations(...transformFunctions)(data), up to the first
\* callback call: the accumulator starts as data
ComposeCall ==
    /\ cpc = "call"
    /\ composeResult' = composeInput
    /\ cpc' = "reduce"
    /\ UNCHANGED <<transformFunctions, composeInput, composeDone, applied>>
    /\ UNCHANGED <<pvars, tvars, hvars, vvars, dvars>>

\* the callback returned out, or threw
ComposeCallback(position, out) ==
    /\ applied' = Append(applied, position)
    /\ IF out.k = "raised"
       THEN /\ cpc' = "thrown"
            /\ UNCHANGED composeResult
       ELSE /\ cpc' = "reduce"
            /\ composeResult' = out

\* one callback call of reduceRight: (result, fn) => fn(result)
ComposeApply ==
    /\ cpc = "reduce"
    /\ composeDone < Len(transformFunctions)
    /\ ComposeCallback(
          reduceRightIndex(Len(transformFunctions), composeDone),
          Call(transformFunctions[
                   reduceRightIndex(Len(transformFunctions), composeDone)],
               composeResult))
    /\ composeDone' = composeDone + 1
    /\ UNCHANGED <<transformFunctions, composeInput>>
    /\ UNCHANGED <<pvars, tvars, hvars, vvars, dvars>>

\* reduceRight is through the list: the accumulator is returned
ComposeReturn ==
    /\ cpc = "reduce"
    /\ composeDone = Len(transformFunctions)
    /\ cpc' = "returned"
    /\ UNCHANGED <<transformFunctions, composeInput, composeResult,
                   composeDone, applied>>
    /\ UNCHANGED <<pvars, tvars, hvars, vvars, dvars>>

NextCompose == ComposeCall \/ ComposeApply \/ ComposeReturn

SpecCompose == InitCompose /\ [][NextCompose]_vars

----------------------------------------------------------------------------
(* C27 *)

\* fn, ..., f1
Reversed(fns) == [i \in 1..Len(fns) |-> fns[Len(fns) + 1 - i]]

\* the functions were called from the last one down
CalledRightToLeft ==
    \A k \in 1..Len(applied) :
        applied[k] = Len(transformFunctions) + 1 - k

\* C27: composeTransformations(f1, ..., fn)(d) calls fn first, on d, and f1
\* last, on the output before it, so it is pipe(fn, ..., f1)(d); without
\* functions it returns d
C27_ComposeIsReversedPipe ==
    /\ CalledRightToLeft
    /\ cpc = "returned" =>
          /\ Len(applied) = Len(transformFunctions)
          /\ composeResult = pipe(Reversed(transformFunctions), composeInput)
          /\ transformFunctions = <<>> => composeResult = composeInput
    /\ cpc = "thrown" =>
          pipe(Reversed(transformFunctions), composeInput).k = "raised"

\* a composition whose result depends on the order of the calls returned
C27_Witness ==
    /\ cpc = "returned"
    /\ Len(transformFunctions) >= 2
    /\ composeResult # pipe(transformFunctions, composeInput)

\* the composition of no function returned
C27_WitnessEmpty ==
    /\ cpc = "returned"
    /\ transformFunctions = <<>>

====
